---- MODULE Spec2Model ----
(***************************************************************************)
(* Model of Content/Python/material_tools.py: the suffix table `actions`,  *)
(* create_empty_material, apply_texture and create_material_from_textures. *)
(* Strings are sequences of one-character strings, so that rsplit, `in`    *)
(* and replace are computed character by character as Python does.         *)
(* The host editor is modelled by what the script asks of it: an asset     *)
(* database (a set of package paths) and one material graph (nodes,        *)
(* connections into material properties, connections between nodes and     *)
(* the material's editor properties).                                      *)
(***************************************************************************)
EXTENDS Integers, Sequences, FiniteSets, TLC

VARIABLES assets, results, material, selected, idx, y_pos, texture_name,
          nodes, propConns, exprConns, matProps, executed, remaining,
          trace, pc

vars == <<assets, results, material, selected, idx, y_pos, texture_name,
          nodes, propConns, exprConns, matProps, executed, remaining,
          trace, pc>>

(* ------------------------------ bounds --------------------------------- *)

\* longest text after the last underscore of an enumerated texture name
MaxSuffixLen == 3
\* most assets in a selection
MaxSel == 3
\* most calls of create_empty_material in one behaviour
MaxCalls == 4

(* --------------------------- program constants ------------------------- *)

YStep == 250
SamplerX == 0 - 500
MultiplyX == 0 - 250
EmissiveScale == 15

(* ------------------------------ strings -------------------------------- *)

\* letters of the keys of the suffix table
KeyLetters == {"D", "A", "O", "N", "M", "R", "S", "E"}

\* letters of the enumerated suffixes: the key letters and one letter that
\* occurs in no key
SuffixLetters == KeyLetters \cup {"X"}

\* str.rsplit('_', 1): the name split at its last underscore, or the name
\* alone when it has none
\* (the mutant splits at the first underscore, as split('_', 1) does)
SplitFirst(name) ==
  IF \E i \in 1..Len(name) : name[i] = "_"
  THEN LET i == CHOOSE j \in 1..Len(name) :
                  /\ name[j] = "_"
                  /\ \A k \in 1..(j - 1) : name[k] # "_"
       IN  <<SubSeq(name, 1, i - 1), SubSeq(name, i + 1, Len(name))>>
  ELSE <<name>>

RSplit1(name) ==
  IF \E i \in 1..Len(name) : name[i] = "_"
  THEN LET i == CHOOSE j \in 1..Len(name) :
                  /\ name[j] = "_"
                  /\ \A k \in (j + 1)..Len(name) : name[k] # "_"
       IN  <<SubSeq(name, 1, i - 1), SubSeq(name, i + 1, Len(name))>>
  ELSE <<name>>

\* parts[1] of Python (the second element): IndexError when there is none
\* (the mutant takes parts[-1], which never fails)
SuffixPartLast(parts) ==
  [ok |-> TRUE, suffix |-> parts[Len(parts)]]

SuffixPart(parts) ==
  IF Len(parts) >= 2
  THEN [ok |-> TRUE, suffix |-> parts[2]]
  ELSE [ok |-> FALSE, suffix |-> <<>>]

\* `key in s` of Python: key occurs contiguously in s
\* (the mutant is s.startswith(key))
StartsWith(key, s) ==
  /\ Len(key) <= Len(s)
  /\ SubSeq(s, 1, Len(key)) = key

Contains(key, s) ==
  \E i \in 1..(Len(s) - Len(key) + 1) : SubSeq(s, i, i + Len(key) - 1) = key

\* s.replace(key, ''): every non-overlapping occurrence of key is removed,
\* scanning from the left (key is never empty here)
RECURSIVE Replace(_, _)
\* (the mutant is s.replace(key, '', 1): only the first occurrence goes)
ReplaceFirst(s, key) ==
  IF Contains(key, s)
  THEN LET i == CHOOSE j \in 1..(Len(s) - Len(key) + 1) :
                  /\ SubSeq(s, j, j + Len(key) - 1) = key
                  /\ \A k \in 1..(j - 1) : SubSeq(s, k, k + Len(key) - 1) # key
       IN  SubSeq(s, 1, i - 1) \o SubSeq(s, i + Len(key), Len(s))
  ELSE s

Replace(s, key) ==
  IF Len(s) < Len(key) THEN s
  ELSE IF SubSeq(s, 1, Len(key)) = key
       THEN Replace(SubSeq(s, Len(key) + 1, Len(s)), key)
       ELSE <<Head(s)>> \o Replace(Tail(s), key)

(* --------------------------- the suffix table -------------------------- *)

KeyDA == <<"D", "A">>
KeyD  == <<"D">>
KeyAO == <<"A", "O">>
KeyA  == <<"A">>
KeyN  == <<"N">>
KeyM  == <<"M">>
KeyR  == <<"R">>
KeyS  == <<"S">>
KeyE  == <<"E">>

\* iteration order of the dictionary `actions` (insertion order)
\* (the mutant lists the one-letter keys before the two-letter ones)
KeysShortFirst == <<KeyD, KeyA, KeyDA, KeyAO, KeyN, KeyM, KeyR, KeyS, KeyE>>

Keys == <<KeyDA, KeyD, KeyAO, KeyA, KeyN, KeyM, KeyR, KeyS, KeyE>>

MaterialProperties ==
  {"MP_BASE_COLOR", "MP_OPACITY", "MP_AMBIENT_OCCLUSION", "MP_NORMAL",
   "MP_METALLIC", "MP_ROUGHNESS", "MP_SPECULAR", "MP_EMISSIVE_COLOR"}

CreateConnection(output_name, material_property) ==
  [kind |-> "CreateConnection", output_name |-> output_name,
   material_property |-> material_property, scale |-> 0,
   property |-> "", value |-> ""]

CreateConnectionScaled(output_name, material_property, scale) ==
  [kind |-> "CreateConnectionScaled", output_name |-> output_name,
   material_property |-> material_property, scale |-> scale,
   property |-> "", value |-> ""]

SetProperty(property, value) ==
  [kind |-> "SetProperty", output_name |-> "", material_property |-> "",
   scale |-> 0, property |-> property, value |-> value]

SetSamplerType(sampler_type) ==
  [kind |-> "SetSamplerType", output_name |-> "", material_property |-> "",
   scale |-> 0, property |-> "sampler_type", value |-> sampler_type]

actions(key) ==
  CASE key = KeyDA -> <<CreateConnection("RGB", "MP_BASE_COLOR"),
                        CreateConnection("A", "MP_OPACITY"),
                        SetProperty("blend_mode", "BLEND_TRANSLUCENT")>>
    [] key = KeyD  -> <<CreateConnection("RGB", "MP_BASE_COLOR")>>
    [] key = KeyAO -> <<CreateConnection("R", "MP_AMBIENT_OCCLUSION"),
                        SetSamplerType("SAMPLERTYPE_MASKS")>>
    [] key = KeyA  -> <<CreateConnection("R", "MP_OPACITY"),
                        SetSamplerType("SAMPLERTYPE_GRAYSCALE"),
                        SetProperty("blend_mode", "BLEND_TRANSLUCENT")>>
    [] key = KeyN  -> <<CreateConnection("RGB", "MP_NORMAL"),
                        SetSamplerType("SAMPLERTYPE_NORMAL")>>
    [] key = KeyM  -> <<CreateConnection("R", "MP_METALLIC"),
                        SetSamplerType("SAMPLERTYPE_MASKS")>>
    [] key = KeyR  -> <<CreateConnection("G", "MP_ROUGHNESS"),
                        SetSamplerType("SAMPLERTYPE_MASKS")>>
    [] key = KeyS  -> <<CreateConnection("B", "MP_SPECULAR"),
                        SetSamplerType("SAMPLERTYPE_MASKS")>>
    [] key = KeyE  -> <<CreateConnectionScaled("RGB", "MP_EMISSIVE_COLOR",
                                               EmissiveScale)>>

(* --------------------------- the material graph ------------------------ *)

NoConnection == [node |-> 0, output |-> "none"]

\* a material as MaterialFactoryNew leaves it: no node, nothing connected
EmptyGraph ==
  [nodes     |-> <<>>,
   propConns |-> [p \in MaterialProperties |-> NoConnection],
   exprConns |-> {},
   matProps  |-> [blend_mode |-> "BLEND_OPAQUE"]]

\* create_material_expression(material, MaterialExpressionTextureSample,
\* -500, y_pos) followed by sampler.texture = load_asset(texture_name)
\* (the mutant forgets the vertical offset)
NewSamplerAtTop(name, y) ==
  [kind |-> "TextureSample", x |-> SamplerX, y |-> 0, texture |-> name,
   sampler_type |-> "SAMPLERTYPE_COLOR", ConstB |-> 0]

NewSampler(name, y) ==
  [kind |-> "TextureSample", x |-> SamplerX, y |-> y, texture |-> name,
   sampler_type |-> "SAMPLERTYPE_COLOR", ConstB |-> 0]

NewMultiply(y, scale) ==
  [kind |-> "Multiply", x |-> MultiplyX, y |-> y, texture |-> <<>>,
   sampler_type |-> "none", ConstB |-> scale]

\* Action.execute(material, expression, y_pos) of the four action classes;
\* g is the material graph, sampler the index of the texture sample node
Execute(a, g, sampler, y) ==
  CASE a.kind = "CreateConnection" ->
         [g EXCEPT !.propConns[a.material_property] =
                       [node |-> sampler, output |-> a.output_name]]
    [] a.kind = "CreateConnectionScaled" ->
         LET m == Len(g.nodes) + 1
         IN  [g EXCEPT !.nodes = Append(@, NewMultiply(y, a.scale)),
                       !.exprConns = @ \cup {[from |-> sampler,
                                              from_output |-> a.output_name,
                                              to |-> m, to_input |-> "A"]},
                       !.propConns[a.material_property] =
                           [node |-> m, output |-> ""]]
    [] a.kind = "SetProperty" ->
         [g EXCEPT !.matProps[a.property] = a.value]
    [] a.kind = "SetSamplerType" ->
         [g EXCEPT !.nodes[sampler].sampler_type = a.value]

\* for action in actions[key]: action.execute(material, sampler, y_pos)
RECURSIVE ExecuteAll(_, _, _, _, _)
ExecuteAll(as, j, g, sampler, y) ==
  IF j > Len(as) THEN g
  ELSE ExecuteAll(as, j + 1, Execute(as[j], g, sampler, y), sampler, y)

\* for key in actions: if key in texture_suffix: ... ; st carries the graph,
\* the remaining suffix, the keys whose actions ran and the suffix that
\* remained after each of them
RECURSIVE KeyLoop(_, _, _, _)
KeyLoop(i, st, sampler, y) ==
  IF i > Len(Keys) THEN st
  ELSE LET key == Keys[i]
       IN  IF Contains(key, st.suffix)
           THEN LET rest == Replace(st.suffix, key)
                IN  KeyLoop(i + 1,
                            [graph     |-> ExecuteAll(actions(key), 1, st.graph,
                                                      sampler, y),
                             suffix    |-> rest,
                             executed  |-> Append(st.executed, key),
                             remaining |-> Append(st.remaining, rest)],
                            sampler, y)
           ELSE KeyLoop(i + 1, st, sampler, y)

\* apply_texture(material, texture_name, y_pos)
ApplyTexture(g, name, y) ==
  LET g1      == [g EXCEPT !.nodes = Append(@, NewSampler(name, y))]
      sampler == Len(g1.nodes)
      sp      == SuffixPart(RSplit1(name))
  IN  IF ~sp.ok
      THEN [failed |-> TRUE, graph |-> g1, executed |-> <<>>,
            remaining |-> <<>>]
      ELSE LET st == KeyLoop(1, [graph |-> g1, suffix |-> sp.suffix,
                                 executed |-> <<>>, remaining |-> <<>>],
                             sampler, y)
           IN  [failed |-> FALSE, graph |-> st.graph,
                executed |-> st.executed, remaining |-> st.remaining]

(* --------------------------- the asset database ------------------------ *)

\* a package path is <<name, n>>: the name as given when n = 0, else the
\* name with the number n appended
\* asset_tools.create_unique_asset_name(name, ''): the first such path that
\* no asset uses
UniqueAssetName(name, db) ==
  LET n == CHOOSE k \in 0..Cardinality(db) :
                /\ <<name, k>> \notin db
                /\ \A j \in 0..(k - 1) : <<name, j>> \in db
  IN  <<name, n>>

\* create_empty_material(name): the asset returned and the database after
CreateEmptyMaterial(name, db) ==
  LET package_name == UniqueAssetName(name, db)
  IN  IF package_name \notin db
      THEN [asset |-> package_name, db |-> db \cup {package_name},
            created |-> TRUE]
      ELSE [asset |-> package_name, db |-> db, created |-> FALSE]

(* ------------------------------- inputs -------------------------------- *)

\* texts without an underscore, up to MaxSuffixLen letters
Bodies == UNION {[1..n -> SuffixLetters] : n \in 0..MaxSuffixLen}

\* what precedes the last part of a texture name: nothing at all (the name
\* then has no underscore), or a text ending in an underscore
Prefixes == {<<>>, <<"_">>, <<"T", "_">>, <<"D", "_", "N", "_">>}

TextureNames == {p \o b : p \in Prefixes, b \in Bodies}

\* the assets a selection is made of: textures and one asset of another
\* class; a texture's name is its path name
Texture(name) == [is_texture |-> TRUE, name |-> name]

OtherAsset == [is_texture |-> FALSE, name |-> <<"S", "M">>]

SelectableAssets ==
  {OtherAsset,
   Texture(<<"T", "_", "D">>), Texture(<<"T", "_", "N">>),
   Texture(<<"T", "_", "E">>), Texture(<<"T", "_", "X">>),
   Texture(<<"T", "X">>)}

Selections == UNION {[1..n -> SelectableAssets] : n \in 0..MaxSel}

MaterialNames == {"M_Rock", "M_Wood", "M_Ice"}

NoAsset == <<"", 0>>

Call(name, arg) == [call |-> name, arg |-> arg]

(* ------------------- create_material_from_textures --------------------- *)

\* the for loop over selected_assets is over when idx has passed the last
\* (the mutant stops one asset early)
LoopFinishedEarly(i, sel) == i >= Len(sel)

LoopFinished(i, sel) == i > Len(sel)

\* y_pos += 250, inside `if isinstance(asset, unreal.Texture)`
\* (the mutant advances for every asset)
NextYPosAlways(is_texture, y) == y + YStep

NextYPos(is_texture, y) == IF is_texture THEN y + YStep ELSE y

Graph == [nodes |-> nodes, propConns |-> propConns, exprConns |-> exprConns,
          matProps |-> matProps]

SetGraph(g) ==
  /\ nodes' = g.nodes
  /\ propConns' = g.propConns
  /\ exprConns' = g.exprConns
  /\ matProps' = g.matProps

Init ==
  /\ assets \in {{}, {<<"M_Rock", 0>>}}
  /\ results = <<>>
  /\ material = NoAsset
  /\ selected \in Selections
  /\ idx = 1
  /\ y_pos = 0
  /\ texture_name = <<>>
  /\ nodes = EmptyGraph.nodes
  /\ propConns = EmptyGraph.propConns
  /\ exprConns = EmptyGraph.exprConns
  /\ matProps = EmptyGraph.matProps
  /\ executed = <<>>
  /\ remaining = <<>>
  /\ trace = <<>>
  /\ pc = "start"

\* material = create_empty_material(name); selected_assets = ...; y_pos = 0
CreateMaterial ==
  /\ pc = "start"
  /\ \E name \in MaterialNames :
       LET r == CreateEmptyMaterial(name, assets)
       IN  /\ assets' = r.db
           /\ material' = r.asset
           /\ results' = Append(results, [name |-> name, asset |-> r.asset])
  /\ idx' = 1
  /\ y_pos' = 0
  /\ trace' = Append(trace, Call("create_empty_material", 0))
  /\ pc' = "loop"
  /\ UNCHANGED <<selected, texture_name, nodes, propConns, exprConns,
                 matProps, executed, remaining>>

\* one iteration of `for asset in selected_assets`
LoopBody ==
  /\ pc = "loop"
  /\ ~LoopFinished(idx, selected)
  /\ LET asset == selected[idx]
     IN  IF asset.is_texture
         THEN LET r == ApplyTexture(Graph, asset.name, y_pos)
              IN  /\ SetGraph(r.graph)
                  /\ texture_name' = asset.name
                  /\ executed' = r.executed
                  /\ remaining' = r.remaining
                  /\ trace' = Append(trace, Call("apply_texture", idx))
                  /\ IF r.failed
                     THEN /\ pc' = "failed"
                          /\ UNCHANGED <<idx, y_pos>>
                     ELSE /\ pc' = "loop"
                          /\ idx' = idx + 1
                          /\ y_pos' = NextYPos(TRUE, y_pos)
         ELSE /\ idx' = idx + 1
              /\ y_pos' = NextYPos(FALSE, y_pos)
              /\ UNCHANGED <<texture_name, nodes, propConns, exprConns,
                             matProps, executed, remaining, trace, pc>>
  /\ UNCHANGED <<assets, results, material, selected>>

\* unreal.MaterialEditingLibrary.recompile_material(material)
Recompile ==
  /\ pc = "loop"
  /\ LoopFinished(idx, selected)
  /\ trace' = Append(trace, Call("recompile_material", 0))
  /\ pc' = "save"
  /\ UNCHANGED <<assets, results, material, selected, idx, y_pos,
                 texture_name, nodes, propConns, exprConns, matProps,
                 executed, remaining>>

\* unreal.EditorAssetLibrary.save_asset(material.get_path_name(), True)
Save ==
  /\ pc = "save"
  /\ trace' = Append(trace, Call("save_asset", 0))
  /\ pc' = "open"
  /\ UNCHANGED <<assets, results, material, selected, idx, y_pos,
                 texture_name, nodes, propConns, exprConns, matProps,
                 executed, remaining>>

\* asset_tools.open_editor_for_assets([material])
OpenEditor ==
  /\ pc = "open"
  /\ trace' = Append(trace, Call("open_editor_for_assets", 0))
  /\ pc' = "done"
  /\ UNCHANGED <<assets, results, material, selected, idx, y_pos,
                 texture_name, nodes, propConns, exprConns, matProps,
                 executed, remaining>>

Next == CreateMaterial \/ LoopBody \/ Recompile \/ Save \/ OpenEditor

Spec == Init /\ [][Next]_vars

(* ---------------------- one call of apply_texture ---------------------- *)

InitApply ==
  /\ assets = {<<"M_Rock", 0>>}
  /\ results = <<>>
  /\ material = <<"M_Rock", 0>>
  /\ selected = <<>>
  /\ idx = 1
  /\ y_pos \in {0, YStep}
  /\ texture_name \in TextureNames
  /\ nodes = EmptyGraph.nodes
  /\ propConns = EmptyGraph.propConns
  /\ exprConns = EmptyGraph.exprConns
  /\ matProps = EmptyGraph.matProps
  /\ executed = <<>>
  /\ remaining = <<>>
  /\ trace = <<>>
  /\ pc = "call"

ApplyTextureCall ==
  /\ pc = "call"
  /\ LET r == ApplyTexture(Graph, texture_name, y_pos)
     IN  /\ SetGraph(r.graph)
         /\ executed' = r.executed
         /\ remaining' = r.remaining
         /\ pc' = IF r.failed THEN "raised" ELSE "returned"
  /\ UNCHANGED <<assets, results, material, selected, idx, y_pos,
                 texture_name, trace>>

NextApply == ApplyTextureCall

SpecApply == InitApply /\ [][NextApply]_vars

(* ------------------ repeated create_empty_material --------------------- *)

InitCEM ==
  /\ assets = {}
  /\ results = <<>>
  /\ material = NoAsset
  /\ selected = <<>>
  /\ idx = 1
  /\ y_pos = 0
  /\ texture_name = <<>>
  /\ nodes = EmptyGraph.nodes
  /\ propConns = EmptyGraph.propConns
  /\ exprConns = EmptyGraph.exprConns
  /\ matProps = EmptyGraph.matProps
  /\ executed = <<>>
  /\ remaining = <<>>
  /\ trace = <<>>
  /\ pc = "idle"

CreateEmptyMaterialCall ==
  /\ pc = "idle"
  /\ Len(results) < MaxCalls
  /\ \E name \in MaterialNames :
       LET r == CreateEmptyMaterial(name, assets)
       IN  /\ assets' = r.db
           /\ material' = r.asset
           /\ results' = Append(results, [name |-> name, asset |-> r.asset])
  /\ UNCHANGED <<selected, idx, y_pos, texture_name, nodes, propConns,
                 exprConns, matProps, executed, remaining, trace, pc>>

NextCEM == CreateEmptyMaterialCall

SpecCEM == InitCEM /\ [][NextCEM]_vars

(* ======================= properties of the script ====================== *)

\* helpers of the properties, stated without the operators of the model

OccursIn(k, s) ==
  \E i \in 1..Len(s) :
    /\ i + Len(k) - 1 <= Len(s)
    /\ \A d \in 1..Len(k) : s[i + d - 1] = k[d]

HasUnderscore(name) == \E i \in 1..Len(name) : name[i] = "_"

\* the text after the last underscore of the name the call was given
OriginalSuffix ==
  LET u == {i \in 1..Len(texture_name) : texture_name[i] = "_"}
      last == CHOOSE i \in u : \A j \in u : j <= i
  IN  [d \in 1..(Len(texture_name) - last) |-> texture_name[last + d]]

TableKeys == {KeyDA, KeyD, KeyAO, KeyA, KeyN, KeyM, KeyR, KeyS, KeyE}

\* place of a key in the table: DA, D, AO, A, N, M, R, S, E
TableOrder(k) ==
  CASE k = KeyDA -> 1 [] k = KeyD -> 2 [] k = KeyAO -> 3 [] k = KeyA -> 4
    [] k = KeyN -> 5 [] k = KeyM -> 6 [] k = KeyR -> 7 [] k = KeyS -> 8
    [] k = KeyE -> 9

Ran(k) == \E j \in 1..Len(executed) : executed[j] = k

ShareLetter(k1, k2) ==
  \E a \in 1..Len(k1) : \E b \in 1..Len(k2) : k1[a] = k2[b]

\* the texture sample node apply_texture is to add for the call in progress
TheSampler(sampler_type) ==
  [kind |-> "TextureSample", x |-> 0 - 500, y |-> y_pos,
   texture |-> texture_name, sampler_type |-> sampler_type, ConstB |-> 0]

Unconnected(props) ==
  \A p \in props : propConns[p] = [node |-> 0, output |-> "none"]

Returned == pc = "returned"

(* ---- C1 ---- *)

\* C1 as stated: after apply_texture returns, every key of the table that
\* is a substring of the text after the last underscore has had its
\* actions executed.
C1_EverySubstringKeyRuns ==
  Returned =>
    \A k \in TableKeys : OccursIn(k, OriginalSuffix) => Ran(k)

\* C1 amended: after apply_texture returns, every key of the table that is
\* a substring of the text after the last underscore has had its actions
\* executed, unless a key tried before it that shares a letter with it has
\* had its actions executed.
C1_SubstringKeyRunsUnlessShadowed ==
  Returned =>
    \A k \in TableKeys :
      OccursIn(k, OriginalSuffix) =>
        \/ Ran(k)
        \/ \E e \in TableKeys :
             /\ TableOrder(e) < TableOrder(k)
             /\ Ran(e)
             /\ ShareLetter(e, k)

\* suffix DAN: DA and N run, D and A occur in it and do not
C1_Witness ==
  /\ Returned
  /\ OriginalSuffix = <<"D", "A", "N">>
  /\ executed = <<KeyDA, KeyN>>

(* ---- C2 ---- *)

\* C2: a texture whose suffix is exactly D gets sampler output RGB
\* connected to MP_BASE_COLOR and nothing else; a texture whose suffix is
\* exactly DA gets that connection and also output A connected to
\* MP_OPACITY and blend_mode set to BLEND_TRANSLUCENT, and nothing else.
C2_SuffixTableLookup ==
  /\ (Returned /\ OriginalSuffix = <<"D">>) =>
       /\ nodes = <<TheSampler("SAMPLERTYPE_COLOR")>>
       /\ propConns["MP_BASE_COLOR"] = [node |-> 1, output |-> "RGB"]
       /\ Unconnected(MaterialProperties \ {"MP_BASE_COLOR"})
       /\ exprConns = {}
       /\ matProps = [blend_mode |-> "BLEND_OPAQUE"]
  /\ (Returned /\ OriginalSuffix = <<"D", "A">>) =>
       /\ nodes = <<TheSampler("SAMPLERTYPE_COLOR")>>
       /\ propConns["MP_BASE_COLOR"] = [node |-> 1, output |-> "RGB"]
       /\ propConns["MP_OPACITY"] = [node |-> 1, output |-> "A"]
       /\ Unconnected(MaterialProperties \ {"MP_BASE_COLOR", "MP_OPACITY"})
       /\ exprConns = {}
       /\ matProps = [blend_mode |-> "BLEND_TRANSLUCENT"]

C2_Witness ==
  /\ Returned
  /\ texture_name = <<"T", "_", "D", "A">>
  /\ matProps.blend_mode = "BLEND_TRANSLUCENT"

(* ---- C3 ---- *)

TextureSamples == SelectSeq(nodes, LAMBDA n : n.kind = "TextureSample")

SelectedTextures == SelectSeq(selected, LAMBDA a : a.is_texture)

\* C3: in create_material_from_textures the k-th selected texture (from
\* 0, in selection order) is applied at y_pos = 250 * k; assets that are
\* not textures are skipped and do not advance the offset; no two textures
\* of a run share a y_pos; once the loop is over every selected texture has
\* been applied.
C3_LayoutOffset ==
  /\ Len(TextureSamples) <= Len(SelectedTextures)
  /\ \A k \in 1..Len(TextureSamples) :
       /\ TextureSamples[k].texture = SelectedTextures[k].name
       /\ TextureSamples[k].y = 250 * (k - 1)
  /\ \A j, k \in 1..Len(TextureSamples) :
       j # k => TextureSamples[j].y # TextureSamples[k].y
  /\ pc = "loop" =>
       y_pos = 250 * Cardinality({i \in 1..(idx - 1) : selected[i].is_texture})
  /\ pc \in {"save", "open", "done"} =>
       Len(TextureSamples) = Len(SelectedTextures)

\* a finished run over a selection that starts with an asset of another
\* class and holds two textures
C3_Witness ==
  /\ pc = "done"
  /\ Len(selected) = 3
  /\ ~selected[1].is_texture
  /\ Len(TextureSamples) = 2
  /\ TextureSamples[2].y = 250

(* ---- C4 ---- *)

\* C4: apply_texture called with a name that has no underscore fails and
\* executes none of the actions of the table; called with a name that has
\* an underscore it does not fail.
C4_MalformedName ==
  pc # "call" =>
    IF HasUnderscore(texture_name)
    THEN pc = "returned"
    ELSE /\ pc = "raised"
         /\ executed = <<>>
         /\ Unconnected(MaterialProperties)
         /\ exprConns = {}
         /\ matProps = [blend_mode |-> "BLEND_OPAQUE"]
         /\ \A i \in 1..Len(nodes) : nodes[i].sampler_type = "SAMPLERTYPE_COLOR"

\* a name without underscore made of key letters
C4_Witness ==
  /\ pc = "raised"
  /\ texture_name = <<"D", "A">>

(* ---- C5 ---- *)

\* C5 as stated: create_empty_material is idempotent; two calls with the
\* same name return the same material, and the asset database holds a
\* single material for that name.
C5_Idempotent ==
  \A i, j \in 1..Len(results) :
    results[i].name = results[j].name =>
      /\ results[i].asset = results[j].asset
      /\ Cardinality({a \in assets : a[1] = results[i].name}) = 1

(* ---- C6 ---- *)

RECURSIVE ApplyCalls(_)
ApplyCalls(i) ==
  IF i > Len(selected) THEN <<>>
  ELSE (IF selected[i].is_texture
        THEN <<[call |-> "apply_texture", arg |-> i]>>
        ELSE <<>>) \o ApplyCalls(i + 1)

ExpectedTrace ==
  <<[call |-> "create_empty_material", arg |-> 0]>>
  \o ApplyCalls(1)
  \o <<[call |-> "recompile_material", arg |-> 0],
       [call |-> "save_asset", arg |-> 0],
       [call |-> "open_editor_for_assets", arg |-> 0]>>

\* C6: create_material_from_textures finds or creates the material first,
\* then applies each selected texture in selection order, and only after
\* the last of them recompiles, saves and opens the editor, each once and
\* in that order; a run over a selection without textures does not stop
\* before those three steps.
C6_FixedOrder ==
  /\ Len(trace) <= Len(ExpectedTrace)
  /\ \A i \in 1..Len(trace) : trace[i] = ExpectedTrace[i]
  /\ pc = "done" => trace = ExpectedTrace
  /\ Len(SelectedTextures) = 0 => pc # "failed"
  /\ (Len(SelectedTextures) = 0 /\ pc \in {"save", "open", "done"}) =>
       trace[2].call = "recompile_material"

\* a finished run over two textures, and the three last steps done
C6_Witness ==
  /\ pc = "done"
  /\ Len(SelectedTextures) = 2
  /\ Len(trace) = 6

(* ---- C7 ---- *)

Unmatched ==
  /\ HasUnderscore(texture_name)
  /\ \A k \in TableKeys : ~OccursIn(k, OriginalSuffix)

\* C7 as stated: a name with an underscore whose suffix matches no key of
\* the table makes apply_texture end in a failure.
C7_UnmatchedSuffixFails ==
  (pc # "call" /\ Unmatched) => pc = "raised"

\* C7 amended: a name with an underscore whose suffix matches no key of the
\* table makes apply_texture return normally, having executed no action of
\* the table: the graph holds the new texture sample node and nothing is
\* connected or set.
C7_UnmatchedSuffixReturns ==
  (pc # "call" /\ Unmatched) =>
    /\ pc = "returned"
    /\ executed = <<>>
    /\ nodes = <<TheSampler("SAMPLERTYPE_COLOR")>>
    /\ Unconnected(MaterialProperties)
    /\ exprConns = {}
    /\ matProps = [blend_mode |-> "BLEND_OPAQUE"]

\* key letters before the last underscore, none after it
C7_Witness ==
  /\ Returned
  /\ texture_name = <<"D", "_", "N", "_", "X", "O">>
  /\ executed = <<>>

(* ---- C8 ---- *)

\* s with every position that lies in an occurrence of k deleted (no key
\* of the table overlaps itself, so the occurrences are disjoint)
WithoutOccurrences(s, k) ==
  LET covered == {i \in 1..Len(s) :
                    \E p \in 1..Len(s) :
                      /\ p <= i
                      /\ i < p + Len(k)
                      /\ p + Len(k) - 1 <= Len(s)
                      /\ \A d \in 1..Len(k) : s[p + d - 1] = k[d]}
      F[i \in 0..Len(s)] ==
        IF i = 0 THEN <<>>
        ELSE IF i \in covered THEN F[i - 1] ELSE Append(F[i - 1], s[i])
  IN  F[Len(s)]

\* the suffix the j-th executed key was tried on
TriedOn(j) == IF j = 1 THEN OriginalSuffix ELSE remaining[j - 1]

\* C8: in one call the keys are tried in the order DA, D, AO, A, N, M, R,
\* S, E; every occurrence of a matched key is removed from the remaining
\* suffix before later keys are tried, and a later key runs only if it
\* occurs in what remained; so each key runs at most once, the keys that
\* run do so in table order, suffix DA runs the DA entry alone and suffix
\* AO the AO entry alone.
C8_TableOrderAndRemoval ==
  Returned =>
    /\ Len(remaining) = Len(executed)
    /\ \A i, j \in 1..Len(executed) :
         i < j => TableOrder(executed[i]) < TableOrder(executed[j])
    /\ \A j \in 1..Len(executed) :
         /\ OccursIn(executed[j], TriedOn(j))
         /\ remaining[j] = WithoutOccurrences(TriedOn(j), executed[j])
    /\ OriginalSuffix = <<"D", "A">> => executed = <<KeyDA>>
    /\ OriginalSuffix = <<"A", "O">> => executed = <<KeyAO>>

\* a key that occurs twice, and a later key
C8_Witness ==
  /\ Returned
  /\ OriginalSuffix = <<"D", "N", "D">>
  /\ executed = <<KeyD, KeyN>>
  /\ remaining = << <<"N">>, <<>> >>

(* ---- C9 ---- *)

\* C9 as stated: apply_texture executes the actions of a key only if the
\* key is a substring of the text after the last underscore as passed in.
C9_OnlySubstringKeysRun ==
  Returned =>
    \A j \in 1..Len(executed) : OccursIn(executed[j], OriginalSuffix)

(* ---- C10 ---- *)

OneSamplerAtOffset ==
  /\ Len(TextureSamples) = 1
  /\ TextureSamples[1].x = 0 - 500
  /\ TextureSamples[1].y = y_pos

\* C10 as stated: a call that fails for want of an underscore leaves the
\* graph without a new node; a call that does not fail adds exactly one
\* texture sample node at (-500, y_pos).
C10_FailureLeavesGraphUntouched ==
  /\ pc = "raised" => nodes = <<>>
  /\ pc = "returned" => OneSamplerAtOffset

\* C10 amended: a call that fails for want of an underscore has already
\* added its texture sample node at (-500, y_pos), holding the texture, and
\* has changed nothing else of the graph; a call that does not fail adds
\* exactly one texture sample node at (-500, y_pos), also when the suffix
\* matches no key.
C10_SamplerAddedEvenOnFailure ==
  /\ pc = "raised" =>
       /\ nodes = <<TheSampler("SAMPLERTYPE_COLOR")>>
       /\ Unconnected(MaterialProperties)
       /\ exprConns = {}
       /\ matProps = [blend_mode |-> "BLEND_OPAQUE"]
  /\ pc = "returned" =>
       /\ OneSamplerAtOffset
       /\ TextureSamples[1].texture = texture_name
       /\ nodes[1].kind = "TextureSample"

\* a failed call at the second layout position
C10_Witness ==
  /\ pc = "raised"
  /\ y_pos = 250
  /\ Len(nodes) = 1

====
